---- MODULE Spec2Model ----
(***************************************************************************)
(* Model of src/app.js: the planner's App component (task collection,      *)
(* pill tokens), its handlers addTask, updateTaskSlot, updatePillStatus,   *)
(* the drop zones of UnifiedSchedule, the input of UnscheduledTasks, and   *)
(* the Dexie table db.tasks with the requests that are still in flight.    *)
(*                                                                         *)
(* Strings that the code converts or trims (task ids, pill indices, the    *)
(* text of the input) are sequences of one-character strings; labels and   *)
(* enum values are plain strings.                                          *)
(***************************************************************************)
EXTENDS Integers, Sequences, FiniteSets

\* ---------------------------------------------------------------- bounds
\* records already in the table when the session starts
MaxInit == 1
\* addTask calls per session
MaxAdds == 2
\* rows of the schedule that receive drops (rows 0 .. MaxZone-1)
MaxZone == 2
\* requests to db.tasks in flight at once
MaxInflight == 2
\* pills that are dragged (indices 0 .. MaxPill-1)
MaxPill == 1

\* ------------------------------------------------------- program constants
timeSlots ==
  << "08:00", "09:00", "10:00", "11:00", "12:00", "13:00", "14:00", "15:00",
     "16:00", "17:00", "18:00", "19:00", "20:00", "21:00", "22:00", "23:00",
     "00:00" >>

\* JavaScript null, the slot of a task that is not scheduled
null == "null"

\* the status every task is created with
pending == "pending"

VARIABLES
  tasks,     \* App state `tasks`: sequence of task records (current render)
  pills,     \* App state `pills`: sequence of pill records
  dbTasks,   \* the table db.tasks: function key -> record
  inflight,  \* requests sent to db.tasks whose promise has not settled, oldest first
  now,       \* the clock read by new Date()
  allTasks,  \* what db.tasks.toArray() handed to loadTasks (<< >> until it resolves)
  reported,  \* the errors reported so far, to a caller or to the log
  last       \* the last event handled, with the id and the slot it carried

vars == << tasks, pills, dbTasks, inflight, now, allTasks, reported, last >>

\* ------------------------------------------------------------ conversions
DigitChars == << "0", "1", "2", "3", "4", "5", "6", "7", "8", "9" >>

\* Number.prototype.toString / the attribute value React writes for a number
RECURSIVE toString(_)
toString(n) ==
  IF n < 10 THEN << DigitChars[n + 1] >>
  ELSE toString(n \div 10) \o << DigitChars[(n % 10) + 1] >>

IsSpace(c) == c \in {" ", "\t", "\n"}

RECURSIVE TrimStart(_)
TrimStart(s) ==
  IF s # << >> /\ IsSpace(Head(s)) THEN TrimStart(Tail(s)) ELSE s

RECURSIVE TrimEnd(_)
TrimEnd(s) ==
  IF s # << >> /\ IsSpace(s[Len(s)]) THEN TrimEnd(SubSeq(s, 1, Len(s) - 1)) ELSE s

\* a variant of Trim that trims nothing
TrimNothing(s) == s

\* String.prototype.trim
Trim(s) == TrimEnd(TrimStart(s))

\* ------------------------------------------------------------- the table
Max(S) == CHOOSE m \in S : \A x \in S : x <= m
Min(S) == CHOOSE m \in S : \A x \in S : m <= x

\* a variant of NextKey that hands the highest key out again
NextKeyReuse(db) == IF DOMAIN db = {} THEN 1 ELSE Max(DOMAIN db)

\* the key the "++id" generator hands out next
NextKey(db) == IF DOMAIN db = {} THEN 1 ELSE Max(DOMAIN db) + 1

\* db.tasks.add(fields): stores the fields under a fresh key, which becomes the id
DbAdd(db, fields) ==
  LET id == NextKey(db)
  IN  [k \in DOMAIN db \cup {id} |->
         IF k = id
         THEN [id |-> id, title |-> fields.title, date |-> fields.date,
               status |-> fields.status, slot |-> fields.slot]
         ELSE db[k]]

\* db.tasks.put(record): upsert keyed by record.id
DbPut(db, rec) ==
  [k \in DOMAIN db \cup {rec.id} |-> IF k = rec.id THEN rec ELSE db[k]]

\* db.tasks.toArray(): every record, in primary-key order
RECURSIVE KeysInOrder(_)
KeysInOrder(S) ==
  IF S = {} THEN << >> ELSE << Min(S) >> \o KeysInOrder(S \ {Min(S)})

ToArray(db) ==
  LET ks == KeysInOrder(DOMAIN db) IN [i \in 1..Len(ks) |-> db[ks[i]]]

\* ------------------------------------------------------------ pure parts
\* line 273: one pill per slot, none taken
InitialPills ==
  [i \in 1..Len(timeSlots) |-> [id |-> i - 1, time |-> timeSlots[i], taken |-> FALSE]]

\* line 285: the fields addTask sends to the table
NewFields(title, date) ==
  [title |-> title, date |-> date, status |-> pending, slot |-> null]

\* a variant of AddResult that forgets the spread of the captured array
AddResultNoSpread(captured, id, title, date) ==
  << [id |-> id, title |-> title, date |-> date, status |-> pending, slot |-> null] >>

\* line 286: the array addTask passes to setTasks
AddResult(captured, id, title, date) ==
  Append(captured, [id |-> id, title |-> title, date |-> date,
                    status |-> pending, slot |-> null])

\* a variant of MapSlot that also marks the task it moves as scheduled
MapSlotSetStatus(ts, taskId, slot) ==
  [i \in 1..Len(ts) |->
     IF toString(ts[i].id) = taskId
     THEN [ts[i] EXCEPT !.slot = slot, !.status = "scheduled"]
     ELSE ts[i]]

\* a variant of MapSlot that lists the task it moves last, in drop order
MapSlotToEnd(ts, taskId, slot) ==
  LET rest  == SelectSeq(ts, LAMBDA t : toString(t.id) # taskId)
      moved == SelectSeq(ts, LAMBDA t : toString(t.id) = taskId)
  IN  rest \o [i \in 1..Len(moved) |-> [moved[i] EXCEPT !.slot = slot]]

\* a variant of MapSlot that compares the numeric id with the string: no task matches
MapSlotNoConvert(ts, taskId, slot) == ts

\* a variant of MapSlot that toggles: a task already in the slot goes back to null
MapSlotToggle(ts, taskId, slot) ==
  [i \in 1..Len(ts) |->
     IF toString(ts[i].id) = taskId
     THEN [ts[i] EXCEPT !.slot = IF ts[i].slot = slot THEN null ELSE slot]
     ELSE ts[i]]

\* lines 290-292: tasks.map(...)
MapSlot(ts, taskId, slot) ==
  [i \in 1..Len(ts) |->
     IF toString(ts[i].id) = taskId THEN [ts[i] EXCEPT !.slot = slot] ELSE ts[i]]

\* a variant of FindTask that falls back to the first task when none matches
FindTaskFallback(ts, taskId) ==
  LET hits == SelectSeq(ts, LAMBDA t : toString(t.id) = taskId)
  IN  IF hits # << >> THEN << Head(hits) >>
      ELSE IF ts # << >> THEN << Head(ts) >> ELSE << >>

\* line 294: updated.find(...); << >> stands for undefined, << t >> for a hit
FindTask(ts, taskId) ==
  LET hits == SelectSeq(ts, LAMBDA t : toString(t.id) = taskId)
  IN  IF hits = << >> THEN << >> ELSE << Head(hits) >>

\* a variant of PutRequests that skips the put when the task is already in the slot
PutRequestsShortCircuit(ts, taskId, slot) ==
  LET old == FindTask(ts, taskId)
  IN  IF old # << >> /\ old[1].slot # slot
      THEN << [kind |-> "put", rec |-> [old[1] EXCEPT !.slot = slot]] >>
      ELSE << >>

\* a variant of PutRequests that looks the task up in `tasks`, not in `updated`
PutRequestsStale(ts, taskId, slot) ==
  LET taskToUpdate == FindTask(ts, taskId)
  IN  IF taskToUpdate # << >>
      THEN << [kind |-> "put", rec |-> taskToUpdate[1]] >>
      ELSE << >>

\* lines 293-295: the requests updateTaskSlot sends to the table: a put of the
\* record find() returns from the updated array, none when find() returns undefined
PutRequests(ts, taskId, slot) ==
  LET taskToUpdate == FindTask(MapSlot(ts, taskId, slot), taskId)
  IN  IF taskToUpdate # << >>
      THEN << [kind |-> "put", rec |-> taskToUpdate[1]] >>
      ELSE << >>

\* a variant of MapTaken that sets the flag of every pill of the day
MapTakenAll(ps, pillIndex, taken) ==
  IF \E i \in 1..Len(ps) : toString(ps[i].id) = pillIndex
  THEN [i \in 1..Len(ps) |-> [ps[i] EXCEPT !.taken = taken]]
  ELSE ps

\* a variant of MapTaken that flips the flag of the pill, whatever the zone
MapTakenToggle(ps, pillIndex, taken) ==
  [i \in 1..Len(ps) |->
     IF toString(ps[i].id) = pillIndex THEN [ps[i] EXCEPT !.taken = ~ps[i].taken] ELSE ps[i]]

\* a variant of MapTaken that falls back on the last pill when no id matches
MapTakenClamp(ps, pillIndex, taken) ==
  IF \E i \in 1..Len(ps) : toString(ps[i].id) = pillIndex
  THEN [i \in 1..Len(ps) |->
          IF toString(ps[i].id) = pillIndex THEN [ps[i] EXCEPT !.taken = taken] ELSE ps[i]]
  ELSE [ps EXCEPT ![Len(ps)].taken = taken]

\* a variant of MapTaken that keeps only the pills the drop is not about
MapTakenFilter(ps, pillIndex, taken) ==
  SelectSeq(ps, LAMBDA p : toString(p.id) # pillIndex)

\* lines 299-303: prev.map(...)
MapTaken(ps, pillIndex, taken) ==
  [i \in 1..Len(ps) |->
     IF toString(ps[i].id) = pillIndex THEN [ps[i] EXCEPT !.taken = taken] ELSE ps[i]]

\* a variant of ZoneSlot that passes the id of the zone element, not the label
ZoneSlotElementId(index) == "task-zone"

\* line 99, 108: the label the task zone of row `index` was set up with
ZoneSlot(index) == timeSlots[index + 1]

\* line 313: the tasks handed to UnscheduledTasks
unscheduled(ts) == SelectSeq(ts, LAMBDA t : t.slot = null)

\* line 190: the tasks rendered in the row of `slot`
byBucket(ts, slot) == SelectSeq(ts, LAMBDA t : t.slot = slot)

\* ---------------------------------------------------------------- inputs
\* slots of the records an earlier session left: scheduled in the midnight row
\* (the tasks created in the session cover the unscheduled ones)
InitSlots == {timeSlots[Len(timeSlots)]}

InitRecord(k, slot) ==
  [id |-> k, title |-> << "o", "l", "d" >>, date |-> 0, status |-> pending, slot |-> slot]

\* the tables a session can start with: 0 .. MaxInit records left by earlier sessions
InitStores ==
  UNION { { [k \in 1..n |-> InitRecord(k, sl[k])] : sl \in [1..n -> InitSlots] }
          : n \in 0..MaxInit }

\* texts typed in the input of UnscheduledTasks
TitleInputs == { << >>, << " " >>, << " ", "b" >> }

MaxId == MaxInit + MaxAdds

\* values of data-task-id a drop can carry: the ids a record of the session can have
TaskIdInputs == { toString(i) : i \in 1..MaxId }

ZoneInputs == { i \in 0..(Len(timeSlots) - 1) : i < MaxZone }

\* values of data-pill-index a drop can carry, and one of no pill
PillInputs == { toString(i) : i \in 0..(MaxPill - 1) } \cup { toString(Len(timeSlots)) }

NoEvent == [op |-> "init", id |-> << >>, slot |-> null]

Event(op, id, slot) == [op |-> op, id |-> id, slot |-> slot]

\* ----------------------------------------------------------------- state
Init ==
  /\ tasks = << >>
  /\ pills = InitialPills
  /\ dbTasks \in InitStores
  /\ inflight = << [kind |-> "load"] >>
  /\ now = 1
  /\ allTasks = << >>
  /\ reported = {}
  /\ last = NoEvent

\* lines 277-280: db.tasks.toArray() resolves, setTasks(allTasks)
loadTasks ==
  /\ inflight # << >>
  /\ Head(inflight).kind = "load"
  /\ allTasks' = ToArray(dbTasks)
  /\ tasks' = allTasks'
  /\ inflight' = Tail(inflight)
  /\ last' = Event("loadTasks", << >>, null)
  /\ UNCHANGED << pills, dbTasks, now, reported >>

\* lines 284-285: addTask up to the await; the closure keeps the `tasks` of this render
addTask(title, date) ==
  /\ inflight' = Append(inflight,
                        [kind |-> "add", tasks |-> tasks, fields |-> NewFields(title, date)])
  /\ now' = now + 1
  /\ last' = Event("addTask", << >>, null)
  /\ UNCHANGED << tasks, pills, dbTasks, allTasks, reported >>

\* lines 38-44 and 57-61: Enter or blur on the input with text newTaskText
submitText(newTaskText) ==
  /\ now <= MaxAdds
  /\ Len(inflight) < MaxInflight
  /\ IF Trim(newTaskText) # << >>
     THEN addTask(newTaskText, now)
     ELSE /\ last' = Event("ignored", << >>, null)
          /\ UNCHANGED << tasks, pills, dbTasks, inflight, now, allTasks, reported >>

handleKeyDown == \E text \in TitleInputs : submitText(text)

\* lines 285-286: db.tasks.add resolves with the id, setTasks([...tasks, {...}])
addTaskResolve ==
  /\ inflight # << >>
  /\ Head(inflight).kind = "add"
  /\ LET req == Head(inflight)
         id  == NextKey(dbTasks)
     IN  /\ dbTasks' = DbAdd(dbTasks, req.fields)
         /\ tasks' = AddResult(req.tasks, id, req.fields.title, req.fields.date)
  /\ inflight' = Tail(inflight)
  /\ last' = Event("addTaskResolve", << >>, null)
  /\ UNCHANGED << pills, now, allTasks, reported >>

\* line 285: db.tasks.add rejects; addTask has no catch, the rejection goes unhandled
addTaskReject ==
  /\ inflight # << >>
  /\ Head(inflight).kind = "add"
  /\ inflight' = Tail(inflight)
  /\ reported' = reported \cup {"PersistenceFailure"}
  /\ last' = Event("addTaskReject", << >>, null)
  /\ UNCHANGED << tasks, pills, dbTasks, now, allTasks >>

\* lines 289-296
updateTaskSlot(taskId, slot) ==
  /\ last' = Event("updateTaskSlot", taskId, slot)
  /\ tasks' = MapSlot(tasks, taskId, slot)
  /\ inflight' = inflight \o PutRequests(tasks, taskId, slot)
  /\ UNCHANGED << pills, dbTasks, now, allTasks, reported >>

\* lines 106-111: a task is dropped on the task zone of row `index`. The effect
\* that sets the zones up runs after every render (its dependency `tasks` is a
\* freshly filtered array, line 315), so the handler that runs closes over the
\* updateTaskSlot, and with it the `tasks`, of the latest render.
ondropTask ==
  \E taskId \in TaskIdInputs, index \in ZoneInputs :
    /\ Len(inflight) < MaxInflight
    /\ updateTaskSlot(taskId, ZoneSlot(index))

\* line 295: db.tasks.put resolves
putResolve ==
  /\ inflight # << >>
  /\ Head(inflight).kind = "put"
  /\ dbTasks' = DbPut(dbTasks, Head(inflight).rec)
  /\ inflight' = Tail(inflight)
  /\ last' = Event("putResolve", << >>, null)
  /\ UNCHANGED << tasks, pills, now, allTasks, reported >>

\* a variant of putReject that puts the slot of the table back in memory
putRejectRollback ==
  /\ inflight # << >>
  /\ Head(inflight).kind = "put"
  /\ LET rec == Head(inflight).rec
     IN  tasks' = IF rec.id \in DOMAIN dbTasks
                  THEN MapSlot(tasks, toString(rec.id), dbTasks[rec.id].slot)
                  ELSE tasks
  /\ inflight' = Tail(inflight)
  /\ reported' = reported \cup {"PersistenceFailure"}
  /\ last' = Event("putReject", << >>, null)
  /\ UNCHANGED << pills, dbTasks, now, allTasks >>

\* line 295: db.tasks.put rejects; nothing handles the promise
putReject ==
  /\ inflight # << >>
  /\ Head(inflight).kind = "put"
  /\ inflight' = Tail(inflight)
  /\ reported' = reported \cup {"PersistenceFailure"}
  /\ last' = Event("putReject", << >>, null)
  /\ UNCHANGED << tasks, pills, dbTasks, now, allTasks >>

\* lines 298-304
updatePillStatus(pillIndex, taken) ==
  /\ last' = Event("updatePillStatus", pillIndex, null)
  /\ pills' = MapTaken(pills, pillIndex, taken)
  /\ UNCHANGED << tasks, dbTasks, inflight, now, allTasks, reported >>

\* lines 120-124 and 132-136: a pill is dropped on the left or right zone of a row
ondropPill ==
  \E pillIndex \in PillInputs, index \in ZoneInputs, taken \in BOOLEAN :
    /\ updatePillStatus(pillIndex, taken)

Next ==
  \/ loadTasks
  \/ handleKeyDown
  \/ addTaskResolve
  \/ addTaskReject
  \/ ondropTask
  \/ putResolve
  \/ putReject
  \/ ondropPill

Spec == Init /\ [][Next]_vars

\* ------------------------------------------------------------ vocabulary
\* the labels of the slot calendar
Labels == { timeSlots[i] : i \in 1..Len(timeSlots) }

\* the ids of the tasks of a sequence
Ids(ts) == { ts[i].id : i \in 1..Len(ts) }

\* some task of ts has the id the string taskId writes
Known(ts, taskId) == \E i \in 1..Len(ts) : toString(ts[i].id) = taskId

\* every view the page renders: the unscheduled list and the bucket of each label
Buckets(ts) ==
  [b \in {null} \cup Labels |-> IF b = null THEN unscheduled(ts) ELSE byBucket(ts, b)]

\* the ids listed in a view
InView(ts, b) == Ids(Buckets(ts)[b])

\* no request is in flight and no write has failed
Quiescent == inflight = << >> /\ "PersistenceFailure" \notin reported

\* the startup load has resolved
Loaded == \A i \in 1..Len(inflight) : inflight[i].kind # "load"

\* ------------------------------------------------------------------ C1
\* C1: when a create completes (db.tasks.add resolves), the array in memory is the
\* array the create was called on, every task of it untouched, plus exactly one new
\* task: its id is none of theirs, its slot is null, and the unscheduled list is
\* the one of that array with the new task appended.
C1_CreateAddsOneUnscheduled ==
  [][ addTaskResolve =>
        LET before == Head(inflight).tasks
            new    == tasks'[Len(tasks')]
        IN  /\ Len(tasks') = Len(before) + 1
            /\ \A i \in 1..Len(before) : tasks'[i] = before[i]
            /\ new.id \notin Ids(before)
            /\ new.slot = null
            /\ Trim(new.title) # << >>
            /\ unscheduled(tasks') = Append(unscheduled(before), new)
    ]_vars

\* a create has just completed on an array that already held a task
C1_Witness ==
  /\ last.op = "addTaskResolve"
  /\ Len(tasks) >= 2
  /\ tasks[Len(tasks)].slot = null
  /\ tasks[Len(tasks)].id = Max(DOMAIN dbTasks)

\* ------------------------------------------------------------------ C2
\* C2: after updateTaskSlot(id, L) for a task that is in memory and a label L of the
\* calendar, the task is listed in the bucket of L and in no other view, the
\* unscheduled list included.
C2_MoveChangesBucket ==
  [][ \A taskId \in TaskIdInputs, index \in ZoneInputs :
        (updateTaskSlot(taskId, ZoneSlot(index)) /\ Known(tasks, taskId)) =>
          \A i \in 1..Len(tasks) :
            toString(tasks[i].id) = taskId =>
              /\ tasks[i].id \in InView(tasks', ZoneSlot(index))
              /\ \A b \in ({null} \cup Labels) \ {ZoneSlot(index)} :
                    tasks[i].id \notin InView(tasks', b)
    ]_vars

\* a task has just been moved to a label; the table still holds its previous slot
C2_Witness ==
  /\ last.op = "updateTaskSlot"
  /\ last.slot \in Labels
  /\ \E i \in 1..Len(tasks) :
        /\ toString(tasks[i].id) = last.id
        /\ tasks[i].slot = last.slot
        /\ tasks[i].id \in DOMAIN dbTasks
        /\ dbTasks[tasks[i].id].slot # last.slot

\* ------------------------------------------------------------------ C3
\* C3: in every quiescent state (nothing in flight, no write failed) each task in
\* memory has the slot of the record with its id in the table.
C3_Reconciled ==
  Quiescent =>
    \A i \in 1..Len(tasks) :
      /\ tasks[i].id \in DOMAIN dbTasks
      /\ dbTasks[tasks[i].id].slot = tasks[i].slot

\* ------------------------------------------------------------------ C4
\* C4: a task that is in memory is in memory in the next state, whatever the step.
C4_NeverDeleted == [][ Ids(tasks) \subseteq Ids(tasks') ]_vars

\* ------------------------------------------------------------------ C5
\* C5: once the startup load has resolved, memory holds every task the load
\* returned; no later completion replaces the array by one without them.
C5_LoadWins == Loaded => Ids(allTasks) \subseteq Ids(tasks)

\* ------------------------------------------------------------------ C6
\* C6 as stated: updateTaskSlot with an id of no task in memory leaves every view,
\* the table and the requests in flight unchanged and reports UnknownTask.
C6_UnknownTaskReported ==
  [][ \A taskId \in TaskIdInputs, index \in ZoneInputs :
        (updateTaskSlot(taskId, ZoneSlot(index)) /\ ~Known(tasks, taskId)) =>
          /\ Buckets(tasks') = Buckets(tasks)
          /\ dbTasks' = dbTasks
          /\ inflight' = inflight
          /\ "UnknownTask" \in reported'
    ]_vars

\* C6 as amended: updateTaskSlot with an id of no task in memory leaves every view,
\* the table and the requests in flight unchanged, and reports nothing: the call
\* returns normally.
C6_UnknownTaskIgnored ==
  [][ \A taskId \in TaskIdInputs, index \in ZoneInputs :
        (updateTaskSlot(taskId, ZoneSlot(index)) /\ ~Known(tasks, taskId)) =>
          /\ Buckets(tasks') = Buckets(tasks)
          /\ dbTasks' = dbTasks
          /\ inflight' = inflight
          /\ reported' = reported
    ]_vars

\* a drop has just carried the id of a task that is not among the tasks in memory
C6_Witness ==
  /\ last.op = "updateTaskSlot"
  /\ tasks # << >>
  /\ ~Known(tasks, last.id)

\* ------------------------------------------------------------------ C7
\* C7: updateTaskSlot(id, L) applied right after updateTaskSlot(id, L) leaves every
\* view as the first application left it.
C7_MoveIdempotent ==
  [][ \A taskId \in TaskIdInputs, index \in ZoneInputs :
        ( /\ last = Event("updateTaskSlot", taskId, ZoneSlot(index))
          /\ updateTaskSlot(taskId, ZoneSlot(index)) ) =>
          Buckets(tasks') = Buckets(tasks)
    ]_vars

\* the same move of a task in memory was made twice in a row: its two puts are
\* the newest requests in flight
C7_Witness ==
  /\ last.op = "updateTaskSlot"
  /\ Known(tasks, last.id)
  /\ Len(inflight) >= 2
  /\ inflight[Len(inflight)].kind = "put"
  /\ inflight[Len(inflight) - 1] = inflight[Len(inflight)]

\* ------------------------------------------------------------------ C8
\* C8: every updateTaskSlot(id, L) on a task in memory sends one put of the whole
\* record of that task with slot L, also when the task is in L already.
C8_MoveAlwaysPersists ==
  [][ \A taskId \in TaskIdInputs, index \in ZoneInputs :
        (updateTaskSlot(taskId, ZoneSlot(index)) /\ Known(tasks, taskId)) =>
          \E i \in 1..Len(tasks) :
            /\ toString(tasks[i].id) = taskId
            /\ inflight' = Append(inflight,
                                  [kind |-> "put",
                                   rec  |-> [id |-> tasks[i].id, title |-> tasks[i].title,
                                             date |-> tasks[i].date,
                                             status |-> tasks[i].status,
                                             slot |-> ZoneSlot(index)]])
    ]_vars

\* a move has just sent a put of a record the table holds already, slot included
C8_Witness ==
  /\ last.op = "updateTaskSlot"
  /\ Len(inflight) = 1
  /\ inflight[1].kind = "put"
  /\ inflight[1].rec.id \in DOMAIN dbTasks
  /\ dbTasks[inflight[1].rec.id] = inflight[1].rec
  /\ \E i \in 1..Len(tasks) : tasks[i] = inflight[1].rec

\* ------------------------------------------------------------------ C9
\* the table once a request has resolved
Resolved(db, req) ==
  IF req.kind = "put" THEN DbPut(db, req.rec)
  ELSE IF req.kind = "add" THEN DbAdd(db, req.fields)
  ELSE db

\* the table once every request of q has resolved, oldest first
RECURSIVE Drained(_, _)
Drained(db, q) == IF q = << >> THEN db ELSE Drained(Resolved(db, Head(q)), Tail(q))

C10_SlotsInCalendar ==
  /\ Cardinality(Labels) = 17
  /\ \A i \in 1..Len(tasks) : tasks[i].slot \in {null} \cup Labels
  /\ \A k \in DOMAIN dbTasks : dbTasks[k].slot \in {null} \cup Labels
  /\ \A i \in 1..Len(inflight) :
        /\ inflight[i].kind = "put" => inflight[i].rec.slot \in {null} \cup Labels
        /\ inflight[i].kind = "add" => inflight[i].fields.slot \in {null} \cup Labels

\* a drop has put a task in a row of the schedule, in memory and in the table
C10_Witness ==
  \E i \in 1..Len(tasks) :
    /\ tasks[i].slot \in Labels \ InitSlots
    /\ tasks[i].id \in DOMAIN dbTasks
    /\ dbTasks[tasks[i].id].slot \in Labels \ InitSlots
    /\ dbTasks[tasks[i].id].slot # tasks[i].slot

\* ----------------------------------------------------------------- C11
\* C11: no id occurs twice in memory, and each task in memory is listed in exactly
\* one of the views (the unscheduled list, the bucket of a label), once.
C11_OneViewEach ==
  /\ \A i, j \in 1..Len(tasks) : tasks[i].id = tasks[j].id => i = j
  /\ \A i \in 1..Len(tasks) :
        Cardinality({ b \in {null} \cup Labels : tasks[i].id \in InView(tasks, b) }) = 1
  /\ \A b \in {null} \cup Labels :
        \A p, q \in 1..Len(Buckets(tasks)[b]) :
          Buckets(tasks)[b][p].id = Buckets(tasks)[b][q].id => p = q

\* three tasks in memory: one unscheduled, one that a drop put in a row
C11_Witness ==
  /\ Len(tasks) >= 3
  /\ \E i, j \in 1..Len(tasks) :
        /\ tasks[i].slot = null
        /\ tasks[j].slot \in Labels \ InitSlots

\* ----------------------------------------------------------------- C12
\* a text of nothing but white space, the empty text included
IsBlank(s) == \A i \in 1..Len(s) : IsSpace(s[i])

\* no task with a blank title is in memory, in the table or on its way to it
NoBlankTitles ==
  /\ \A i \in 1..Len(tasks) : ~IsBlank(tasks[i].title)
  /\ \A k \in DOMAIN dbTasks : ~IsBlank(dbTasks[k].title)
  /\ \A i \in 1..Len(inflight) :
        inflight[i].kind = "add" => ~IsBlank(inflight[i].fields.title)

\* C12 as stated: a create with a blank title mutates nothing and reports
\* InvalidInput, and no task with a blank title ever exists.
C12_BlankTitleInvalidInput ==
  /\ []NoBlankTitles
  /\ [][ \A text \in TitleInputs :
           (submitText(text) /\ IsBlank(text)) =>
             /\ UNCHANGED << tasks, pills, dbTasks, inflight >>
             /\ "InvalidInput" \in reported'
       ]_vars

\* C12 as amended: a blank text in the input is ignored: addTask is not called,
\* nothing is mutated and nothing is reported; no task with a blank title ever
\* exists in memory, in the table or on its way to it.
C12_BlankTitleIgnored ==
  /\ []NoBlankTitles
  /\ [][ \A text \in TitleInputs :
           (submitText(text) /\ IsBlank(text)) =>
             /\ UNCHANGED << tasks, pills, dbTasks, inflight, now >>
             /\ reported' = reported
       ]_vars

\* a blank text has just been submitted while tasks were in memory
C12_Witness ==
  /\ last.op = "ignored"
  /\ tasks # << >>


C14_OnePillPerSlot ==
  /\ Len(pills) = 17
  /\ Len(pills) = Len(timeSlots)
  /\ \A i \in 1..Len(pills) :
        /\ pills[i].id = i - 1
        /\ pills[i].time = timeSlots[i]
        /\ pills[i].taken \in BOOLEAN
  /\ \A i \in 0..16 : Cardinality({ k \in 1..Len(pills) : pills[k].id = i }) = 1

\* pills have been dropped, a task created and one moved, and a pill is taken
C14_Witness ==
  /\ \E i \in 1..Len(pills) : pills[i].taken
  /\ last.op = "updatePillStatus"
  /\ \E i \in 1..Len(tasks) : tasks[i].slot \in Labels \ InitSlots
  /\ Len(tasks) >= 2


\* ------------------------------------------------------------------ C15
\* the string pillIndex writes no index of the calendar, 0..16
OutOfRange(pillIndex) == \A i \in 0..(Len(timeSlots) - 1) : toString(i) # pillIndex

\* C15 as stated: updatePillStatus with an index out of range leaves every pill as
\* it is and reports UnknownSlot.
C15_UnknownSlotReported ==
  [][ \A pillIndex \in PillInputs, taken \in BOOLEAN :
        (updatePillStatus(pillIndex, taken) /\ OutOfRange(pillIndex)) =>
          /\ pills' = pills
          /\ "UnknownSlot" \in reported'
    ]_vars

\* C15 as the code has it: updatePillStatus with an index out of range leaves every
\* pill, the tasks and the table as they are, and reports nothing.
C15_UnknownSlotIgnored ==
  [][ \A pillIndex \in PillInputs, taken \in BOOLEAN :
        (updatePillStatus(pillIndex, taken) /\ OutOfRange(pillIndex)) =>
          /\ pills' = pills
          /\ UNCHANGED << tasks, dbTasks, inflight >>
          /\ reported' = reported
    ]_vars

\* a pill drop with an index out of range has just been handled, with a pill taken
C15_Witness ==
  /\ last.op = "updatePillStatus"
  /\ OutOfRange(last.id)
  /\ \E i \in 1..Len(pills) : pills[i].taken


\* ------------------------------------------------------------------ C16
\* the pills after updatePillStatus(i, true) and then updatePillStatus(i, false)
TakenThenNotTaken(ps, i) == MapTaken(MapTaken(ps, toString(i), TRUE), toString(i), FALSE)

\* C16 as stated: in every reachable state and for every index i, the two calls
\* would give pill i back as it is now.
C16_RoundTripRestores ==
  \A i \in 0..(Len(timeSlots) - 1) :
    TakenThenNotTaken(pills, i)[i + 1] = pills[i + 1]

\* C16 as the code has it: in every reachable state and for every index i, the two
\* calls would leave pill i not taken, with its index and label, and every other
\* pill as it is; that is the pill as it is now exactly when it is not taken now.
C16_RoundTripEndsNotTaken ==
  \A i \in 0..(Len(timeSlots) - 1) :
    LET after == TakenThenNotTaken(pills, i)
    IN  /\ Len(after) = Len(pills)
        /\ after[i + 1] = [pills[i + 1] EXCEPT !.taken = FALSE]
        /\ \A k \in 1..Len(pills) : k # i + 1 => after[k] = pills[k]
        /\ (after[i + 1] = pills[i + 1]) <=> ~pills[i + 1].taken

\* a pill has been dropped on a taken zone and is taken: the two calls start from
\* a taken pill
C16_Witness ==
  /\ last.op = "updatePillStatus"
  /\ ~OutOfRange(last.id)
  /\ \E i \in 1..Len(pills) : toString(pills[i].id) = last.id /\ pills[i].taken


\* ------------------------------------------------------------------ C17
\* C17: once every request has settled, each task that was created in the session
\* (a record of the table that the startup load did not return) is in memory, and,
\* no write having failed, each task in memory is in the slot the table has for it,
\* the slot its last move put.
C17_OverlapLosesNothing ==
  inflight = << >> =>
    /\ \A k \in DOMAIN dbTasks : k \notin Ids(allTasks) => k \in Ids(tasks)
    /\ Quiescent =>
          \A i \in 1..Len(tasks) :
            tasks[i].id \in DOMAIN dbTasks => tasks[i].slot = dbTasks[tasks[i].id].slot


\* ------------------------------------------------------------------ C18
\* C18: a drop of the pill with index i on the left (taken = FALSE) or right
\* (taken = TRUE) zone of any row (the row is no input of updatePillStatus) leaves
\* the pill with its index and label and with the flag of the zone, every other
\* pill as it is, and the tasks, the table and the requests in flight as they are.
C18_PillDropFrame ==
  [][ \A pillIndex \in PillInputs, taken \in BOOLEAN :
        (updatePillStatus(pillIndex, taken) /\ ~OutOfRange(pillIndex)) =>
          /\ Len(pills') = Len(pills)
          /\ \A k \in 1..Len(pills) :
                IF toString(pills[k].id) = pillIndex
                THEN /\ pills'[k].id = pills[k].id
                     /\ pills'[k].time = pills[k].time
                     /\ pills'[k].taken = taken
                ELSE pills'[k] = pills[k]
          /\ UNCHANGED << tasks, dbTasks, inflight >>
    ]_vars

\* a pill has just been dropped and is taken, with tasks in memory and a request
\* in flight
C18_Witness ==
  /\ last.op = "updatePillStatus"
  /\ ~OutOfRange(last.id)
  /\ \E k \in 1..Len(pills) : pills[k].taken
  /\ \E k \in 1..Len(pills) : ~pills[k].taken
  /\ tasks # << >>
  /\ inflight # << >>


\* ------------------------------------------------------------------ C19
\* C19: updateTaskSlot(id, L) for a task in memory leaves the array with the same
\* length, the task with its id, title, date and status (pending) and with slot L,
\* every other task as it is, and the pills as they are.
C19_MoveFrame ==
  [][ \A taskId \in TaskIdInputs, index \in ZoneInputs :
        (updateTaskSlot(taskId, ZoneSlot(index)) /\ Known(tasks, taskId)) =>
          /\ Len(tasks') = Len(tasks)
          /\ \A i \in 1..Len(tasks) :
                IF toString(tasks[i].id) = taskId
                THEN /\ tasks'[i].id = tasks[i].id
                     /\ tasks'[i].title = tasks[i].title
                     /\ tasks'[i].date = tasks[i].date
                     /\ tasks'[i].status = tasks[i].status
                     /\ tasks'[i].status = pending
                     /\ tasks'[i].slot = ZoneSlot(index)
                ELSE tasks'[i] = tasks[i]
          /\ pills' = pills
    ]_vars

\* a task has just been moved out of the slot the table has for it, with another
\* task in memory and a pill taken
C19_Witness ==
  /\ last.op = "updateTaskSlot"
  /\ Len(tasks) >= 2
  /\ \E k \in 1..Len(pills) : pills[k].taken
  /\ \E i \in 1..Len(tasks) :
        /\ toString(tasks[i].id) = last.id
        /\ tasks[i].slot = last.slot
        /\ tasks[i].id \in DOMAIN dbTasks
        /\ dbTasks[tasks[i].id].slot # last.slot

\* ------------------------------------------------------------------ C20
\* the ids of a sequence of tasks, in the order of the sequence
IdOrder(ts) == [i \in 1..Len(ts) |-> ts[i].id]

\* the ids of ts ascend: a task created earlier (a smaller key) comes first
Ascending(ts) == \A i, j \in 1..Len(ts) : i < j => ts[i].id < ts[j].id

\* C20: in every reachable state every view lists its tasks in creation order (the
\* order of the keys the table handed out), and a move leaves the order of the
\* tasks in memory as it is.
C20_InsertionOrder ==
  /\ [](\A b \in {null} \cup Labels : Ascending(Buckets(tasks)[b]))
  /\ [][ \A taskId \in TaskIdInputs, index \in ZoneInputs :
          updateTaskSlot(taskId, ZoneSlot(index)) => IdOrder(tasks') = IdOrder(tasks)
      ]_vars

\* two tasks share a row, and the one created first was dropped there last
C20_Witness ==
  /\ last.op = "updateTaskSlot"
  /\ \E i, j \in 1..Len(tasks) :
        /\ i < j
        /\ tasks[i].id < tasks[j].id
        /\ toString(tasks[i].id) = last.id
        /\ tasks[i].slot = last.slot
        /\ tasks[j].slot = last.slot

====
